---- MODULE Spec2Model ----
(***************************************************************************)
(* A model of the orchestration-and-settlement engine of bitAi:            *)
(*   - UniversalOrchestrator.run (src/agents/orchestrator.py): plan        *)
(*     decomposition, sequential chaining, cost accounting, trail;         *)
(*   - the workers behind the registry (src/agents/specialists.py,         *)
(*     base_agent.py, summarizer.py, translator.py, scraper.py,            *)
(*     pdf_loader.py) and the HTTP dispatch (agent_server.py);             *)
(*   - the voucher signer/verifier (src/agents/core/wallet.py and          *)
(*     src/core/wallet.py);                                                *)
(*   - the Identity (BaseAgent in src/agents/base_agent.py): voucher       *)
(*     issuing, registration, settlement counters, called in sequence and  *)
(*     by two threads.                                                     *)
(*                                                                         *)
(* Conventions.  A Python string whose content does not matter is a record *)
(* [type |-> "str", body, len] (its identity and its length in characters).*)
(* Strings whose characters matter (addresses, signed messages) are        *)
(* sequences of one-character strings.  Money is counted in hundredths of  *)
(* a currency unit (0.02 is 2).  An operation's result is an outcome       *)
(* record: a return value or a raised exception.                           *)
(***************************************************************************)
EXTENDS Integers, Sequences, FiniteSets, TLC

VARIABLES
    \* ---- UniversalOrchestrator (one instance, calls of run in sequence)
    specialists,    \* self.specialists: capability name -> worker class
    total_cost,     \* self.total_cost
    pc,             \* position of the current call of run
    n_calls,        \* number of calls of run started so far
    user_query,     \* argument of the current call
    plan_response,  \* what self.llm.invoke answered in the current call
    parse_failed,   \* the current call took the JSONDecodeError branch
    plan,           \* the parsed (or fallback) plan: a JSON value
    step_i,         \* enumerate index i of the loop (0-based), next step
    current_data,   \* local current_data
    results,        \* local results
    invoked,        \* history: the execute calls made by the current run
    fault,          \* the exception that left run, or "none"
    returned,       \* the dict run returned
    \* ---- workers and the HTTP /execute endpoint
    w_call,         \* the last worker call or HTTP request
    w_result,       \* its outcome
    \* ---- wallet
    iou,            \* the last voucher signed
    v_call,         \* the last verification call and its outcome
    \* ---- BaseAgent (one instance: the Identity)
    self_wallet,    \* self.wallet
    self_key,       \* self.private_key
    self_nonce,     \* self.nonce
    total_earned,   \* self.total_earned
    jobs_completed, \* self.jobs_completed
    issued,         \* history: the vouchers generate_iou returned, in order
    id_call,        \* the last call on the instance and its outcome
    threads         \* position of each thread inside generate_iou

orch_vars == <<specialists, total_cost, pc, n_calls, user_query, plan_response,
               parse_failed,
               plan, step_i, current_data, results, invoked, fault, returned>>
worker_vars == <<w_call, w_result>>
wallet_vars == <<iou, v_call>>
identity_vars == <<self_wallet, self_key, self_nonce, total_earned, jobs_completed,
                   issued, id_call, threads>>
vars == <<orch_vars, worker_vars, wallet_vars, identity_vars>>

-----------------------------------------------------------------------------
(* Bounds *)

MaxPlanLen == 3     \* longest plan the backend answers with
MaxWrappedLen == 2  \* longest plan the backend answers inside code fences
MaxCalls == 2       \* calls of run on the one orchestrator instance
MaxAmount == 2      \* largest voucher amount
MaxVouchers == 3    \* generate_iou calls that reach the increment
MaxJobs == 2        \* confirm_payment calls

-----------------------------------------------------------------------------
(* Data *)

None == [type |-> "none"]
Str(b, n) == [type |-> "str", body |-> b, len |-> n]

\* Outcome of a call: what it returned, or the exception it raised.
Return(o, c) == [kind |-> "return", output |-> o, cost |-> c, error |-> "none"]
Raise(e) == [kind |-> "raise", output |-> None, cost |-> 0, error |-> e]

\* Tasks a caller hands to run (one short, one longer than a preview).
Tasks == {Str("task-a", 40), Str("task-b", 250)}

\* What the language backend may write back for a worker's prompt: a short
\* text, one exactly a preview long, and one a unit longer.
LlmOutputs == {Str("out-short", 12), Str("out-edge", 200), Str("out-long", 201)}

-----------------------------------------------------------------------------
(* Python values handed to workers: strings, dicts, numbers *)

Num == [type |-> "num"]
Dict(f) == [type |-> "dict", fields |-> f]
EmptyFields == [k \in {} |-> None]

\* dict.get(key, default)
Get(d, key, default) ==
    IF key \in DOMAIN d.fields THEN d.fields[key] ELSE default

\* Truth value of a Python object in `if not x` / `x or y`.
Truthy(v) ==
    CASE v.type = "none" -> FALSE
      [] v.type = "str" -> v.len > 0
      [] v.type = "dict" -> DOMAIN v.fields # {}
      [] v.type = "bool" -> v.val
      [] OTHER -> TRUE

\* url.startswith(('http://', 'https://'))
StartsWithHttp(u) == u.body \in {"http://site", "https://site"}

-----------------------------------------------------------------------------
(* Worker classes and method resolution *)

\* The methods each class body defines.
ClassMethods ==
    [c \in {"BaseAgent"} |->
        {"__init__", "generate_iou", "register", "confirm_payment",
         "execute", "get_stats", "request_payment"}]
    @@ [c \in {"specialists.SummarizerAgent", "specialists.TranslatorAgent",
               "specialists.ScraperAgent", "specialists.ImageGenAgent",
               "specialists.PDFLoaderAgent"} |-> {"__init__", "execute_service"}]
    @@ [c \in {"summarizer.SummarizerAgent", "translator.Translator",
               "scraper.ScraperAgent", "pdf_loader.PDFLoaderAgent"} |->
        {"__init__", "execute"}]

\* class X(BaseAgent) / class X:
BaseClass ==
    [c \in DOMAIN ClassMethods |->
        IF c \in {"specialists.SummarizerAgent", "specialists.TranslatorAgent",
                  "specialists.ScraperAgent", "specialists.ImageGenAgent",
                  "specialists.PDFLoaderAgent"}
        THEN "BaseAgent" ELSE "object"]

\* The class whose body supplies method m to instances of cls.
RECURSIVE Resolve(_, _)
Resolve(cls, m) ==
    IF cls = "object" THEN "object"
    ELSE IF m \in ClassMethods[cls] THEN cls
    ELSE Resolve(BaseClass[cls], m)

-----------------------------------------------------------------------------
(* Worker bodies: the set of outcomes execute(input_data) can have, over   *)
(* everything the environment (backend, network, disk) may do.             *)

SummarizerCost == 3
TranslatorPrice == 5
ScraperPrice == 2
PDFLoaderPrice == 1

\* BaseAgent.execute
BaseAgent_execute(input_data) == {Raise("NotImplementedError")}

\* summarizer.SummarizerAgent.execute
Summarizer_execute(text_input) ==
    {Return(o, SummarizerCost) : o \in LlmOutputs} \cup {Raise("BackendError")}

\* translator.Translator.execute
Translator_execute(text) ==
    {Return(o, TranslatorPrice) : o \in LlmOutputs} \cup {Raise("BackendError")}

ScraperError(msg, url) ==
    Dict([error |-> Str(msg, 20), url |-> url, content |-> None])

ScraperSuccess(url) ==
    Dict([url |-> url, title |-> Str("title", 5), content |-> Str("page", 900),
          word_count |-> Num, status |-> Str("success", 7)])

\* A failure that is charged like a success.
ScraperFailure_Charged(msg, url) == Return(ScraperError(msg, url), ScraperPrice)

\* return {"output": {"error": ..., "url": ..., "content": None}, "cost": 0}
ScraperFailure(msg, url) == Return(ScraperError(msg, url), 0)

\* scraper.ScraperAgent.execute
Scraper_execute(input_data) ==
    IF input_data.type # "dict" THEN {Raise("AttributeError")}
    ELSE LET url == Get(input_data, "url", Str("", 0)) IN
         IF ~Truthy(url) THEN {ScraperFailure("No URL provided", None)}
         ELSE IF url.type # "str" THEN {Raise("AttributeError")}
         ELSE IF ~StartsWithHttp(url)
              THEN {ScraperFailure("Invalid URL format", url)}
         ELSE {Return(ScraperSuccess(url), ScraperPrice)}
              \cup {ScraperFailure(m, url) :
                      m \in {"Request timeout", "HTTP error",
                             "Network error", "Parsing error"}}

\* pdf_loader.PDFLoaderAgent.execute
PDFLoader_execute(input_data) ==
    IF input_data.type = "dict" /\ "file_content" \in DOMAIN input_data.fields
    THEN \* cloud mode: decode, write a temp file, load it
         (IF /\ input_data.fields["file_content"].type = "str"
             /\ input_data.fields["file_content"].body = "base64-pdf"
          THEN {Return(Str("pdf-text", 300), PDFLoaderPrice)} ELSE {})
         \cup {Return(Str("Failed to process PDF from DB", 29), 0)}
    ELSE \* legacy mode: scan the input folder
         { Return(Str("Error: Folder not found", 23), 0),
           Return(Str("No new PDF found", 16), 0),
           Return(Str("pdf-text", 300), PDFLoaderPrice),
           Return(Str("Failed to read PDF", 18), 0) }

\* instance.execute(input_data) for an instance of cls
Execute(cls, input_data) ==
    LET owner == Resolve(cls, "execute") IN
    CASE owner = "BaseAgent" -> BaseAgent_execute(input_data)
      [] owner = "summarizer.SummarizerAgent" -> Summarizer_execute(input_data)
      [] owner = "translator.Translator" -> Translator_execute(input_data)
      [] owner = "scraper.ScraperAgent" -> Scraper_execute(input_data)
      [] owner = "pdf_loader.PDFLoaderAgent" -> PDFLoader_execute(input_data)
      [] OTHER -> {Raise("AttributeError")}

-----------------------------------------------------------------------------
(* The backend's answer to the decomposition prompt, as a token sequence   *)

Fence == [t |-> "fence", w |-> "fence", v |-> None]
Word(x) == [t |-> "word", w |-> x, v |-> None]
Ws == [t |-> "ws", w |-> " ", v |-> None]
Val(j) == [t |-> "value", w |-> "", v |-> j]

\* JSON values: a list of items, an object (its keys), a number.
PlanStep(a, ins) == [kind |-> "step", agent |-> a, instruction |-> ins]
NoAgent(ins) == [kind |-> "no_agent", agent |-> "", instruction |-> ins]
NoInstruction(a) == [kind |-> "no_instruction", agent |-> a, instruction |-> None]
StringItem(x) == [kind |-> "string", agent |-> x, instruction |-> None]
JsonList(items) == [type |-> "list", items |-> items]
JsonObject(keys) == [type |-> "object", items |-> keys]
JsonNumber == [type |-> "number", items |-> <<>>]

\* The steps a genuine plan is made of; "ghost" is no registered capability.
StepKinds ==
    { PlanStep("summarizer", Str("summarize the text", 18)),
      PlanStep("translator", Str("translate to Spanish", 20)),
      PlanStep("ghost", Str("do magic", 8)) }

SeqsUpTo(S, n) == UNION {[1..k -> S] : k \in 0..n}

\* A string with k code-fence markers inside it (len counts their characters).
Fenced(b, n, k) == [type |-> "str", body |-> b, len |-> n, fences |-> k]

\* Plans with an instruction that speaks of a code fence.
FencedPlans ==
    { JsonList(<<PlanStep("summarizer", Fenced("put the summary between FENCE lines", 31, 1))>>),
      JsonList(<<PlanStep("translator", Str("translate to Spanish", 20)),
                 PlanStep("summarizer", Fenced("quote the text as FENCE text FENCE", 28, 2))>>) }

GenuinePlans ==
    {JsonList(p) : p \in SeqsUpTo(StepKinds, MaxPlanLen)} \cup FencedPlans

\* Valid JSON that is no list of {agent, instruction} records.
MalformedPlans ==
    { JsonNumber,
      JsonObject(<<StringItem("agent"), StringItem("instruction")>>),
      JsonList(<<StringItem("summarizer")>>),
      JsonList(<<NoAgent(Str("summarize the text", 18))>>),
      JsonList(<<NoInstruction("summarizer")>>),
      JsonList(<<NoInstruction("ghost")>>) }

\* plan_response.content
ReplyContents ==
    {<<Val(j)>> : j \in GenuinePlans \cup MalformedPlans}
    \cup { <<Fence, Word("json"), Ws, Val(j), Ws, Fence>> :
             j \in {g \in GenuinePlans : Len(g.items) <= MaxWrappedLen} }
    \cup { <<Word("Sure"), Ws, Word("thing")>>,
           <<Word("Here"), Ws, Val(JsonList(<<>>))>>,
           <<>> }

\* self.llm.invoke(messages): the content it returns, or its failure
BackendReplies ==
    {Return([type |-> "content", tokens |-> c], 0) : c \in ReplyContents} \cup {Raise("BackendError")}

\* s.replace(FENCE + 'json', ''), FENCE being three backticks
RECURSIVE ReplaceFenceJson(_)
ReplaceFenceJson(s) ==
    IF s = <<>> THEN <<>>
    ELSE IF Len(s) >= 2 /\ s[1].t = "fence" /\ s[2].t = "word" /\ s[2].w = "json"
         THEN ReplaceFenceJson(SubSeq(s, 3, Len(s)))
         ELSE <<s[1]>> \o ReplaceFenceJson(Tail(s))

\* s.replace(FENCE, ''): the markers between the tokens go, and so do the
\* markers inside the strings of a JSON text.
IsNotFence(tok) == tok.t # "fence"
UnfenceStr(x) ==
    IF "fences" \in DOMAIN x
    THEN [x EXCEPT !.len = @ - 3 * x.fences, !.fences = 0]
    ELSE x
UnfenceValue(j) ==
    [j EXCEPT !.items =
        [k \in DOMAIN j.items |-> [j.items[k] EXCEPT !.instruction = UnfenceStr(@)]]]
UnfenceToken(tok) == IF tok.t = "value" THEN Val(UnfenceValue(tok.v)) ELSE tok
ReplaceFence(s) ==
    LET kept == SelectSeq(s, IsNotFence) IN
    [i \in DOMAIN kept |-> UnfenceToken(kept[i])]

\* s.strip()
RECURSIVE LStrip(_)
LStrip(s) ==
    IF s # <<>> /\ s[1].t = "ws" THEN LStrip(Tail(s)) ELSE s
RECURSIVE RStrip(_)
RStrip(s) ==
    IF s # <<>> /\ s[Len(s)].t = "ws" THEN RStrip(SubSeq(s, 1, Len(s) - 1)) ELSE s
Strip(s) == RStrip(LStrip(s))

\* plan_response.content.replace(FENCE + 'json', '').replace(FENCE, '').strip()
PlanData(content) == Strip(ReplaceFence(ReplaceFenceJson(content)))

\* json.loads(plan_data): the value, or JSONDecodeError
JsonLoads(s) ==
    IF Len(s) = 1 /\ s[1].t = "value" THEN Return(s[1].v, 0)
    ELSE Raise("JSONDecodeError")

\* A fallback that hires another agent.
FallbackPlan_Translator ==
    JsonList(<<PlanStep("translator", Str("process the input", 17))>>)

\* The plan of the except branch.
FallbackPlan ==
    JsonList(<<PlanStep("summarizer", Str("process the input", 17))>>)

\* try: invoke, strip, json.loads / except json.JSONDecodeError: fallback.
\* The outcome is the plan, or the exception that leaves the try statement.
Decompose(reply) ==
    IF reply.kind = "raise" THEN Raise(reply.error)
    ELSE LET parsed == JsonLoads(PlanData(reply.output.tokens)) IN
         IF parsed.kind = "raise" THEN Return(FallbackPlan, 0) ELSE parsed

\* The except json.JSONDecodeError branch was taken.
TookFallback(reply) ==
    reply.kind = "return" /\ JsonLoads(PlanData(reply.output.tokens)).kind = "raise"

-----------------------------------------------------------------------------
(* UniversalOrchestrator *)

\* self.specialists as __init__ builds it.
OrchestratorSpecialists ==
    [c \in {"summarizer"} |-> "specialists.SummarizerAgent"]
    @@ [c \in {"translator"} |-> "specialists.TranslatorAgent"]
    @@ [c \in {"scraper"} |-> "specialists.ScraperAgent"]
    @@ [c \in {"image_gen"} |-> "specialists.ImageGenAgent"]
    @@ [c \in {"pdf_loader"} |-> "specialists.PDFLoaderAgent"]

\* self.specialists is a plain dict attribute.  Besides the table __init__
\* builds, the orchestrator is followed with the table holding the workers the
\* agent server instantiates, whose classes define execute themselves, so that
\* the chaining code is followed past the first execute call.
ServerWorkers ==
    [c \in {"summarizer"} |-> "summarizer.SummarizerAgent"]
    @@ [c \in {"translator"} |-> "translator.Translator"]
    @@ [c \in {"scraper"} |-> "scraper.ScraperAgent"]
    @@ [c \in {"pdf_loader"} |-> "pdf_loader.PDFLoaderAgent"]

PreviewLen == 200

\* A preview that already cuts an output of exactly the preview length.
OutputPreview_Inclusive(data) ==
    IF data.type = "str" /\ data.len >= PreviewLen
    THEN [type |-> "str", prefix_of |-> data.body, prefix_len |-> PreviewLen,
          suffix |-> "...", len |-> PreviewLen + 3]
    ELSE data

\* current_data[:200] + "..." if len(current_data) > 200 else current_data
\* (the conditional binds loosest: the marker is added only in the long branch)
OutputPreview(data) ==
    IF data.type = "str" /\ data.len > PreviewLen
    THEN [type |-> "str", prefix_of |-> data.body, prefix_len |-> PreviewLen,
          suffix |-> "...", len |-> PreviewLen + 3]
    ELSE data

NoReturn == [type |-> "none"]
NoPlan == [type |-> "none", items |-> <<>>]

\* The exception one loop iteration raises before it reaches execute.
StepFault(step, registry) ==
    CASE step.kind = "string" -> "TypeError"
      [] step.kind = "no_agent" -> "KeyError"
      [] step.kind = "no_instruction" /\ step.agent \in DOMAIN registry -> "KeyError"
      [] OTHER -> "none"

\* A skip that ends the loop (break in place of continue).
AfterSkip_Break(i, n) == n

\* `continue`: the index the loop goes on with after a skipped step.
AfterSkip(i, n) == i + 1

\* A chain that keeps feeding the data it started the step with.
ThreadedData_Stale(current, result_from_agent) == current

\* current_data = result_from_agent["output"]
ThreadedData(current, result_from_agent) == result_from_agent.output

\* self.total_cost += result_from_agent["cost"]
AddCost(total, result_from_agent) == total + result_from_agent.cost

\* A trail entry that leaves the step's cost out.
TrailEntry_NoCost(i, step, data, result_from_agent) ==
    [step |-> i + 1, agent |-> step.agent, instruction |-> step.instruction,
     output_preview |-> OutputPreview(data), cost |-> 0]

\* results.append({"step": i + 1, "agent": ..., "instruction": ...,
\*                 "output_preview": ..., "cost": result_from_agent["cost"]})
TrailEntry(i, step, data, result_from_agent) ==
    [step |-> i + 1, agent |-> step.agent, instruction |-> step.instruction,
     output_preview |-> OutputPreview(data), cost |-> result_from_agent.cost]

\* The value the return statement builds.
RunResult(data, total, steps) ==
    [final_output |-> data, total_cost |-> total, steps |-> steps]

OrchInit ==
    /\ specialists \in {OrchestratorSpecialists, ServerWorkers}
    /\ total_cost = 0
    /\ pc = "idle"
    /\ n_calls = 0
    /\ user_query = None
    /\ plan_response = None
    /\ parse_failed = FALSE
    /\ plan = NoPlan
    /\ step_i = 0
    /\ current_data = None
    /\ results = <<>>
    /\ invoked = <<>>
    /\ fault = "none"
    /\ returned = NoReturn

\* run(user_query) is entered: its locals are fresh.
RunBegin(q) ==
    /\ pc \in {"idle", "returned", "raised"}
    /\ n_calls < MaxCalls
    /\ n_calls' = n_calls + 1
    /\ user_query' = q
    /\ pc' = "decompose"
    /\ plan_response' = None
    /\ parse_failed' = FALSE
    /\ plan' = NoPlan
    /\ step_i' = 0
    /\ current_data' = None
    /\ results' = <<>>
    /\ invoked' = <<>>
    /\ fault' = "none"
    /\ returned' = NoReturn
    /\ UNCHANGED <<specialists, total_cost, worker_vars, wallet_vars, identity_vars>>

\* The try statement around the backend call, then len(plan) and the
\* initialisation of current_data and results.
RunDecompose(reply) ==
    /\ pc = "decompose"
    /\ plan_response' = reply
    /\ parse_failed' = TookFallback(reply)
    /\ LET d == Decompose(reply) IN
       IF d.kind = "raise"
       THEN /\ pc' = "raised" /\ fault' = d.error
            /\ UNCHANGED <<plan, current_data>>
       ELSE IF d.output.type = "number"
       THEN \* len(plan) of a number
            /\ pc' = "raised" /\ fault' = "TypeError"
            /\ plan' = d.output /\ UNCHANGED current_data
       ELSE /\ pc' = "chain" /\ fault' = "none"
            /\ plan' = d.output /\ current_data' = user_query
    /\ UNCHANGED <<specialists, total_cost, n_calls, user_query, step_i, results,
                   invoked, returned, worker_vars, wallet_vars, identity_vars>>

\* One loop iteration that raises at step['agent'] or step['instruction'].
RunStepFault ==
    /\ pc = "chain"
    /\ step_i < Len(plan.items)
    /\ LET step == plan.items[step_i + 1] IN
       /\ StepFault(step, specialists) # "none"
       /\ fault' = StepFault(step, specialists)
    /\ pc' = "raised"
    /\ UNCHANGED <<specialists, total_cost, n_calls, user_query, plan_response,
                   parse_failed,
                   plan, step_i, current_data, results, invoked, returned,
                   worker_vars, wallet_vars, identity_vars>>

\* One loop iteration whose agent is not in self.specialists.
RunStepSkip ==
    /\ pc = "chain"
    /\ step_i < Len(plan.items)
    /\ LET step == plan.items[step_i + 1] IN
       /\ StepFault(step, specialists) = "none"
       /\ step.agent \notin DOMAIN specialists
    /\ step_i' = AfterSkip(step_i, Len(plan.items))
    /\ UNCHANGED <<specialists, total_cost, pc, n_calls, user_query, plan_response,
                   parse_failed,
                   plan, current_data, results, invoked, fault, returned,
                   worker_vars, wallet_vars, identity_vars>>

\* One loop iteration that hires the agent.
RunStepExecute ==
    /\ pc = "chain"
    /\ step_i < Len(plan.items)
    /\ LET step == plan.items[step_i + 1] IN
       /\ StepFault(step, specialists) = "none"
       /\ step.agent \in DOMAIN specialists
       /\ \E oc \in Execute(specialists[step.agent], current_data) :
            /\ invoked' = Append(invoked, [step |-> step_i + 1, agent |-> step.agent,
                                           input |-> current_data, outcome |-> oc])
            /\ IF oc.kind = "raise"
               THEN /\ pc' = "raised" /\ fault' = oc.error
                    /\ UNCHANGED <<current_data, total_cost, results, step_i>>
               ELSE /\ current_data' = ThreadedData(current_data, oc)
                    /\ total_cost' = AddCost(total_cost, oc)
                    /\ results' = Append(results,
                          TrailEntry(step_i, step, ThreadedData(current_data, oc), oc))
                    /\ step_i' = step_i + 1
                    /\ UNCHANGED <<pc, fault>>
    /\ UNCHANGED <<specialists, n_calls, user_query, plan_response, parse_failed,
                   plan, returned,
                   worker_vars, wallet_vars, identity_vars>>

\* The return statement after the loop.
RunReturn ==
    /\ pc = "chain"
    /\ step_i >= Len(plan.items)
    /\ returned' = RunResult(current_data, total_cost, results)
    /\ pc' = "returned"
    /\ UNCHANGED <<specialists, total_cost, n_calls, user_query, plan_response,
                   parse_failed,
                   plan, step_i, current_data, results, invoked, fault,
                   worker_vars, wallet_vars, identity_vars>>

WorkerIdle == w_call = None /\ w_result = None
WalletIdle == iou = None /\ v_call = None

\* Thread names, and no thread inside generate_iou.
Threads == {"t1", "t2"}
NoThread == [pc |-> "idle", worker_wallet |-> None, amount |-> 0, loaded |-> 0]

\* BaseAgent.__init__ with no wallet and no key in the environment.
IdentityIdle ==
    /\ self_wallet = None
    /\ self_key = None
    /\ self_nonce = 0
    /\ total_earned = 0
    /\ jobs_completed = 0
    /\ issued = <<>>
    /\ id_call = None
    /\ threads = [t \in Threads |-> NoThread]

Init == OrchInit /\ WorkerIdle /\ WalletIdle /\ IdentityIdle

Next ==
    \/ \E q \in Tasks : RunBegin(q)
    \/ \E reply \in BackendReplies : RunDecompose(reply)
    \/ RunStepFault
    \/ RunStepSkip
    \/ RunStepExecute
    \/ RunReturn

Spec == Init /\ [][Next]_vars

-----------------------------------------------------------------------------
(* Workers called directly, and the HTTP /execute endpoints *)

\* Inputs a caller may pass: free text, or a record with named fields.
WorkerInputs ==
    { Str("some text", 9),
      Str("http://site", 11),
      Dict(EmptyFields),
      Dict([text |-> Str("some text", 9)]),
      Dict([url |-> Str("http://site", 11)]),
      Dict([url |-> Str("ftp://site", 10)]),
      Dict([url |-> Str("", 0)]),
      Dict([file_content |-> Str("base64-pdf", 10), filename |-> Str("a.pdf", 5)]),
      Dict([file_content |-> Str("not-base64", 10), filename |-> Str("a.pdf", 5)]) }

WorkerClasses == DOMAIN ClassMethods \ {"BaseAgent"}

ServiceTypes == {"summarizer", "translation", "pdf_loader", "scraper", "translator"}

\* str(input_data)
Repr(v) == Str("repr", 30)

\* a or b
Or(a, b) == IF Truthy(a) THEN a ELSE b

\* jsonify({...}), status
HttpSuccess(result) ==
    [status |-> 200, success |-> TRUE, output |-> result.output,
     cost |-> result.cost, error |-> "none"]
HttpFailure(code, e) ==
    [status |-> code, success |-> FALSE, output |-> None, cost |-> 0, error |-> e]

\* The except Exception branch of an endpoint: a raised outcome becomes a 500.
HttpAnswer(outcomes) ==
    { IF oc.kind = "raise" THEN HttpFailure(500, oc.error) ELSE HttpSuccess(oc) :
        oc \in outcomes }

\* agent_server: the text handed to the summarizer, or the AttributeError of
\* calling .get on a value that is no dict.
SummarizerText(input_data) ==
    IF input_data.type = "str" THEN Return(input_data, 0)
    ELSE IF input_data.type # "dict" THEN Raise("AttributeError")
    ELSE Return(Or(Get(input_data, "text", None),
                   Or(Get(input_data, "prompt", None),
                      Or(Get(input_data, "output", None), Repr(input_data)))), 0)

\* agent_server: text = input_data.get('text') or str(input_data)
TranslationText(input_data) ==
    IF input_data.type # "dict" THEN Raise("AttributeError")
    ELSE Return(Or(Get(input_data, "text", None), Repr(input_data)), 0)

\* agent_server.execute: the answers a request can get.
AgentServer_execute(service_type, input_data, pdf_available) ==
    CASE service_type = "summarizer" ->
            LET text == SummarizerText(input_data) IN
            IF text.kind = "raise" THEN HttpAnswer({text})
            ELSE HttpAnswer(Execute("summarizer.SummarizerAgent", text.output))
      [] service_type = "translation" ->
            LET text == TranslationText(input_data) IN
            IF text.kind = "raise" THEN HttpAnswer({text})
            ELSE HttpAnswer(Execute("translator.Translator", text.output))
      [] service_type = "pdf_loader" ->
            IF pdf_available
            THEN HttpAnswer(Execute("pdf_loader.PDFLoaderAgent", input_data))
            ELSE HttpAnswer({Return(Str("PDF Loader not available", 24), PDFLoaderPrice)})
      [] service_type = "scraper" ->
            HttpAnswer(Execute("scraper.ScraperAgent", input_data))
      [] OTHER -> {HttpFailure(400, "Unknown service type")}

\* scraper_server.execute
ScraperServer_execute(service_type, input_data) ==
    IF service_type = "scraper"
    THEN HttpAnswer(Execute("scraper.ScraperAgent", input_data))
    ELSE {HttpFailure(400, "Only 'scraper' service is available")}

\* worker.execute(input_data) called on an instance of cls
WorkerExecute(cls, input_data) ==
    /\ w_call' = [via |-> "direct", target |-> cls, input |-> input_data,
                  pdf_available |-> TRUE]
    /\ w_result' \in Execute(cls, input_data)
    /\ UNCHANGED <<orch_vars, wallet_vars, identity_vars>>

\* POST /execute on the agent server
AgentServerRequest(service_type, input_data, pdf_available) ==
    /\ w_call' = [via |-> "agent_server", target |-> service_type,
                  input |-> input_data, pdf_available |-> pdf_available]
    /\ w_result' \in AgentServer_execute(service_type, input_data, pdf_available)
    /\ UNCHANGED <<orch_vars, wallet_vars, identity_vars>>

\* POST /execute on the scraper server
ScraperServerRequest(service_type, input_data) ==
    /\ w_call' = [via |-> "scraper_server", target |-> service_type,
                  input |-> input_data, pdf_available |-> FALSE]
    /\ w_result' \in ScraperServer_execute(service_type, input_data)
    /\ UNCHANGED <<orch_vars, wallet_vars, identity_vars>>

OrchIdle == OrchInit /\ specialists = OrchestratorSpecialists

WorkerInit == OrchIdle /\ WorkerIdle /\ WalletIdle /\ IdentityIdle

WorkerNext ==
    \/ \E cls \in WorkerClasses, input_data \in WorkerInputs :
          WorkerExecute(cls, input_data)
    \/ \E st \in ServiceTypes, input_data \in WorkerInputs, pa \in BOOLEAN :
          AgentServerRequest(st, input_data, pa)
    \/ \E st \in ServiceTypes, input_data \in WorkerInputs :
          ScraperServerRequest(st, input_data)

WorkerSpec == WorkerInit /\ [][WorkerNext]_vars

\* C8: every worker's execute takes a free-text string as well as a structured
\* record and returns {output, cost} for either; the scraper worker and the
\* HTTP translation dispatch take a bare string.
C8_AcceptsBothShapes ==
    /\ ( /\ w_call # None
         /\ w_call.via = "direct"
         /\ Resolve(w_call.target, "execute") # "BaseAgent"
         /\ w_call.input.type \in {"str", "dict"} )
       => w_result.error # "AttributeError"
    /\ ( /\ w_call # None
         /\ w_call.via = "agent_server"
         /\ w_call.target = "translation"
         /\ w_call.input.type = "str" )
       => w_result.error # "AttributeError"

\* The output of a result describes an error: the scraper's record with an
\* error field, the PDF loader's message.
CarriesError(output) ==
    \/ output.type = "dict" /\ "error" \in DOMAIN output.fields
    \/ /\ output.type = "str"
       /\ output.body \in {"Failed to process PDF from DB", "Error: Folder not found",
                           "No new PDF found", "Failed to read PDF"}

\* The price the class of a direct call charges.
PriceOf(cls) == IF cls = "scraper.ScraperAgent" THEN ScraperPrice ELSE PDFLoaderPrice

\* A direct call of the scraper or of the PDF loader with a structured input.
StructuredWorkerCall ==
    /\ w_call # None
    /\ w_call.via = "direct"
    /\ w_call.target \in {"scraper.ScraperAgent", "pdf_loader.PDFLoaderAgent"}
    /\ w_call.input.type = "dict"

\* C17: on every failure path of the scraper and of the PDF loader handling a
\* structured input, execute returns (never raises) a result with cost 0 whose
\* output carries an error description; the price is charged on the success
\* path only.
C17_FailuresCostNothing ==
    StructuredWorkerCall =>
        /\ w_result.kind = "return"
        /\ \/ w_result.cost = 0 /\ CarriesError(w_result.output)
           \/ w_result.cost = PriceOf(w_call.target) /\ ~CarriesError(w_result.output)

\* The scraper given a well-formed URL that timed out.
C17_Witness ==
    /\ StructuredWorkerCall
    /\ w_call.input = Dict([url |-> Str("http://site", 11)])
    /\ w_result = Return(ScraperError("Request timeout", Str("http://site", 11)), 0)

\* The request named a capability the server could not run.
CouldNotRun ==
    /\ w_call.via = "agent_server"
    /\ w_call.target = "pdf_loader"
    /\ ~w_call.pdf_available

\* C18: every /execute request is answered either success true with a 2xx
\* status, or success false with status 400 (unknown service type) or 500
\* (handling raised); a capability that could not be run is never answered
\* with success true and a non-zero cost.
C18_ExecuteAnswers ==
    (w_call # None /\ w_call.via # "direct") =>
        /\ \/ w_result.success /\ w_result.status = 200
           \/ ~w_result.success /\ w_result.status \in {400, 500}
        /\ CouldNotRun => ~(w_result.success /\ w_result.cost # 0)

-----------------------------------------------------------------------------
(* Wallet: signing and verifying payment vouchers.  Strings whose           *)
(* characters matter are records [type |-> "str", chars |-> <<...>>].       *)

Text(cs) == [type |-> "str", chars |-> cs]
Bool(b) == [type |-> "bool", val |-> b]

LowerChar(c) ==
    CASE c = "A" -> "a" [] c = "B" -> "b" [] c = "C" -> "c" [] c = "D" -> "d"
      [] c = "E" -> "e" [] c = "F" -> "f" [] c = "X" -> "x" [] OTHER -> c

\* s.lower()
Lower(s) == Text([i \in DOMAIN s.chars |-> LowerChar(s.chars[i])])

DigitChar(d) ==
    CASE d = 0 -> "0" [] d = 1 -> "1" [] d = 2 -> "2" [] d = 3 -> "3"
      [] d = 4 -> "4" [] d = 5 -> "5" [] d = 6 -> "6" [] d = 7 -> "7"
      [] d = 8 -> "8" [] OTHER -> "9"

\* str(n) of a non-negative int, as the f-string formats it
RECURSIVE Digits(_)
Digits(n) ==
    IF n < 10 THEN <<DigitChar(n)>>
    ELSE Digits(n \div 10) \o <<DigitChar(n % 10)>>

\* f"{recipient}:{amount}:{nonce}"
Message(recipient, amount, nonce) ==
    recipient.chars \o <<":">> \o Digits(amount) \o <<":">> \o Digits(nonce)

\* f"PAY:{recipient_address}:AMT:{amount}:NONCE:{nonce}"
PaymentData(recipient_address, amount, nonce) ==
    <<"P", "A", "Y", ":">> \o recipient_address.chars
    \o <<":", "A", "M", "T", ":">> \o Digits(amount)
    \o <<":", "N", "O", "N", "C", "E", ":">> \o Digits(nonce)

\* Private keys as hex strings; "k1" and "k2" stand for 64 hex digits each,
\* "zz" for text that is no key.
PrivateKeys ==
    { Text(<<"0", "x", "k1">>), Text(<<"k1">>), Text(<<"0", "x", "k2">>),
      Text(<<"zz">>) }

\* if not private_key.startswith('0x'): private_key = '0x' + private_key
WithPrefix(private_key) ==
    IF /\ Len(private_key.chars) >= 2
       /\ private_key.chars[1] = "0"
       /\ private_key.chars[2] = "x"
    THEN private_key
    ELSE Text(<<"0", "x">> \o private_key.chars)

\* The 32 bytes a key string denotes ("none" when it denotes none).
KeyBytes(private_key) ==
    LET k == WithPrefix(private_key).chars IN
    IF Len(k) = 3 /\ k[3] \in {"k1", "k2"} THEN k[3] ELSE "none"

\* The checksummed address of a key.
AddressOfKeyBytes(kb) ==
    IF kb = "k1" THEN Text(<<"0", "x", "A", "b", "1">>)
    ELSE Text(<<"0", "x", "c", "D", "2">>)
AddressOf(private_key) == AddressOfKeyBytes(KeyBytes(private_key))

\* An address no key of the model owns: what recovery yields from a signature
\* and a message it was not made for.
StrangerAddress == Text(<<"0", "x", "9", "E", "9">>)

Recipients ==
    { Text(<<"0", "x", "A", "b", "7">>), Text(<<"0", "x", "a", "b", "7">>),
      Text(<<"0", "x", "C", "d", "8">>) }

Amounts == 0..MaxAmount
Nonces == {1, 11}

ExpectedSigners ==
    { AddressOf(Text(<<"k1">>)), Lower(AddressOf(Text(<<"k1">>))),
      Text(<<"0", "X", "A", "B", "1">>), AddressOf(Text(<<"0", "x", "k2">>)),
      StrangerAddress }

\* A signature as a Python str: whether it is all hex digits (after an
\* optional 0x), how many bytes it encodes, and the key and message the bytes
\* are a signature of ("none" when they are no signature made by a key).
SigStr(prefix, hex, nbytes, signer, msg) ==
    [type |-> "str", prefix |-> prefix, hex |-> hex, nbytes |-> nbytes,
     signer |-> signer, msg |-> msg]

\* signed.signature.hex(): with or without a leading 0x, by library version.
SignatureHex(kb, msg) == {SigStr(p, TRUE, 65, kb, msg) : p \in BOOLEAN}

CorruptSignatures ==
    { SigStr(FALSE, FALSE, 0, "none", <<>>),     \* text that is no hex
      SigStr(TRUE, TRUE, 10, "none", <<>>),      \* hex of the wrong length
      SigStr(FALSE, TRUE, 65, "none", <<>>) }    \* 65 bytes that are no signature

\* signature.replace('0x', '')
Replace0x(sig) == [sig EXCEPT !.prefix = FALSE]

\* bytes.fromhex(s): hex digits only, no 0x
BytesFromHex(sig) ==
    IF sig.prefix \/ ~sig.hex THEN Raise("ValueError") ELSE Return(sig, 0)

\* HexBytes(s), as recover_message converts a str signature: 0x is optional
HexBytes(sig) ==
    IF ~sig.hex THEN Raise("ValueError") ELSE Return(Replace0x(sig), 0)

\* Account.recover_message(message, signature=<bytes>): the address, or the
\* exception.
RecoverMessage(msg, sig) ==
    IF sig.nbytes # 65 THEN {Raise("BadSignature")}
    ELSE IF sig.signer = "none" THEN {Raise("BadSignature"), Return(StrangerAddress, 0)}
    ELSE IF sig.msg = msg THEN {Return(AddressOfKeyBytes(sig.signer), 0)}
    ELSE {Return(StrangerAddress, 0)}

\* agents/core/wallet.py sign_payment_iou: the voucher, or the exception.
sign_payment_iou(private_key, recipient, amount, nonce) ==
    IF KeyBytes(private_key) = "none" THEN {Raise("ValueError")}
    ELSE { Return([recipient |-> recipient, amount |-> amount, nonce |-> nonce,
                   signature |-> sg,
                   message |-> Text(Message(recipient, amount, nonce))], 0) :
             sg \in SignatureHex(KeyBytes(private_key),
                                 Message(recipient, amount, nonce)) }

\* A comparison that forgets to fold the case.
SignerMatches_CaseSensitive(recovered, expected_signer) ==
    recovered = expected_signer

\* recovered.lower() == expected_signer.lower()
SignerMatches(recovered, expected_signer) ==
    Lower(recovered) = Lower(expected_signer)

\* agents/core/wallet.py verify_payment_signature
verify_payment_signature(recipient, amount, nonce, signature, expected_signer) ==
    LET raw == BytesFromHex(Replace0x(signature)) IN
    IF raw.kind = "raise" THEN {Return(Bool(FALSE), 0)}
    ELSE { IF r.kind = "raise" THEN Return(Bool(FALSE), 0)
           ELSE Return(Bool(SignerMatches(r.output, expected_signer)), 0) :
             r \in RecoverMessage(Message(recipient, amount, nonce), raw.output) }

\* core/wallet.py sign_payment_iou: the signature's hex
core_sign_payment_iou(private_key, recipient_address, amount, nonce) ==
    IF KeyBytes(private_key) = "none" THEN {Raise("ValueError")}
    ELSE { Return(sg, 0) :
             sg \in SignatureHex(KeyBytes(private_key),
                                 PaymentData(recipient_address, amount, nonce)) }

\* core/wallet.py verify_iou
verify_iou(signature, signer_address, recipient_address, amount, nonce) ==
    LET raw == HexBytes(signature) IN
    IF raw.kind = "raise" THEN {raw}
    ELSE { IF r.kind = "raise" THEN r
           ELSE Return(Bool(Lower(r.output) = Lower(signer_address)), 0) :
             r \in RecoverMessage(PaymentData(recipient_address, amount, nonce),
                                  raw.output) }

\* A call of one of the two signing functions.  iou keeps what was signed and
\* with which key next to the value returned.
SignVoucher(fn, private_key, recipient, amount, nonce) ==
    /\ \E oc \in (IF fn = "sign_payment_iou"
                  THEN sign_payment_iou(private_key, recipient, amount, nonce)
                  ELSE core_sign_payment_iou(private_key, recipient, amount, nonce)) :
          iou' = [fn |-> fn, key |-> private_key, recipient |-> recipient,
                  amount |-> amount, nonce |-> nonce, outcome |-> oc]
    /\ v_call' = None
    /\ UNCHANGED <<orch_vars, worker_vars, identity_vars>>

\* The signature string a holder of the last voucher has.
HeldSignatures ==
    IF iou = None \/ iou.outcome.kind = "raise" THEN {}
    ELSE IF iou.fn = "sign_payment_iou" THEN {iou.outcome.output.signature}
    ELSE {iou.outcome.output}

\* A call of one of the two verification functions.
VerifyVoucher(fn, recipient, amount, nonce, signature, expected_signer) ==
    /\ \E oc \in (IF fn = "verify_payment_signature"
                  THEN verify_payment_signature(recipient, amount, nonce,
                                                signature, expected_signer)
                  ELSE verify_iou(signature, expected_signer, recipient,
                                  amount, nonce)) :
          v_call' = [fn |-> fn, recipient |-> recipient, amount |-> amount,
                     nonce |-> nonce, signature |-> signature,
                     expected_signer |-> expected_signer, outcome |-> oc]
    /\ UNCHANGED <<orch_vars, worker_vars, iou, identity_vars>>

WalletInit == OrchIdle /\ WorkerIdle /\ WalletIdle /\ IdentityIdle

\* The functions keep no state of their own, so a behaviour follows one
\* signing and then one verification.
SignOnce ==
    /\ iou = None
    /\ \E fn \in {"sign_payment_iou", "core.sign_payment_iou"},
          k \in PrivateKeys, r \in Recipients, a \in Amounts, n \in Nonces :
          SignVoucher(fn, k, r, a, n)

VerifyOnce ==
    /\ v_call = None
    /\ \E fn \in {"verify_payment_signature", "verify_iou"},
          r \in Recipients, a \in Amounts, n \in Nonces,
          sg \in HeldSignatures \cup CorruptSignatures, e \in ExpectedSigners :
          VerifyVoucher(fn, r, a, n, sg, e)

WalletNext == SignOnce \/ VerifyOnce

WalletSpec == WalletInit /\ [][WalletNext]_vars

\* The verification is of the signature of the voucher last signed, by the
\* function that belongs to the signing function.
VerifiesHeldVoucher ==
    /\ v_call # None
    /\ iou # None
    /\ v_call.fn = "verify_payment_signature"
    /\ iou.fn = "sign_payment_iou"
    /\ v_call.signature \in HeldSignatures

\* C9: verifying a voucher's own signature answers true exactly when recipient,
\* amount and sequence are the signed ones and the expected signer is the
\* signing key's address up to letter case; changing any one of them, or
\* expecting another signer, answers false.
C9_VoucherRoundTrip ==
    VerifiesHeldVoucher =>
        LET as_signed == /\ v_call.recipient = iou.recipient
                         /\ v_call.amount = iou.amount
                         /\ v_call.nonce = iou.nonce
            the_signer == Lower(v_call.expected_signer) = Lower(AddressOf(iou.key))
        IN  /\ (as_signed /\ the_signer) => v_call.outcome = Return(Bool(TRUE), 0)
            /\ (~as_signed /\ the_signer) => v_call.outcome = Return(Bool(FALSE), 0)
            /\ (as_signed /\ ~the_signer) => v_call.outcome = Return(Bool(FALSE), 0)

\* A voucher verified true against its signer's address written in another
\* letter case.
C9_Witness ==
    /\ VerifiesHeldVoucher
    /\ v_call.outcome = Return(Bool(TRUE), 0)
    /\ v_call.expected_signer # AddressOf(iou.key)

\* C10: no verification function raises on a corrupted, non-hex or
\* wrong-length signature; each answers false.
C10_VerifyNeverRaises ==
    (v_call # None /\ v_call.signature \in CorruptSignatures)
        => /\ v_call.outcome.kind = "return"
           /\ (~v_call.signature.hex \/ v_call.signature.nbytes # 65)
                 => v_call.outcome = Return(Bool(FALSE), 0)

-----------------------------------------------------------------------------
(* Claims about UniversalOrchestrator.run *)

RECURSIVE SumCosts(_)
SumCosts(calls) ==
    IF calls = <<>> THEN 0
    ELSE (IF calls[1].outcome.kind = "return" THEN calls[1].outcome.cost ELSE 0)
         + SumCosts(Tail(calls))

InvokedSteps == {invoked[n].step : n \in DOMAIN invoked}
Registered(j) == plan.items[j].agent \in DOMAIN specialists

\* C1: workers are invoked in plan order, and the n-th executed step is handed
\* exactly the output the previously executed step returned, the first executed
\* step the original task; no executed step is handed anything else.
C1_SequentialThreading ==
    \A n \in DOMAIN invoked :
        /\ invoked[n].agent = plan.items[invoked[n].step].agent
        /\ IF n = 1
           THEN invoked[n].input = user_query
           ELSE /\ invoked[n - 1].outcome.kind = "return"
                /\ invoked[n].input = invoked[n - 1].outcome.output
                /\ invoked[n - 1].step < invoked[n].step

\* A three-step plan ran to its end, each step fed the output of the one before,
\* and the outputs of the first two steps differ.
C1_Witness ==
    /\ pc = "returned"
    /\ Len(invoked) = 3
    /\ invoked[1].input = user_query
    /\ invoked[2].input = invoked[1].outcome.output
    /\ invoked[3].input = invoked[2].outcome.output
    /\ invoked[1].outcome.output # invoked[2].outcome.output

C3_RunNeverRaises == pc # "raised"

\* C4: a step naming an unregistered capability is skipped without a worker
\* call and without touching total_cost or current_data, the loop goes on with
\* the next step, and every registered step the loop has gone past was executed.
C4_UnknownCapabilitySkip ==
    [][ /\ ( /\ pc = "chain"
             /\ step_i < Len(plan.items)
             /\ StepFault(plan.items[step_i + 1], specialists) = "none"
             /\ ~Registered(step_i + 1) )
           => /\ pc' = "chain"
              /\ step_i' = step_i + 1
              /\ total_cost' = total_cost
              /\ current_data' = current_data
              /\ invoked' = invoked
        /\ (pc' \in {"chain", "returned"}
               => \A j \in 1..step_i' : Registered(j)' => j \in InvokedSteps')
      ]_vars

\* A run returned whose plan has an unregistered step followed by a registered
\* one, and that later step was executed.
C4_Witness ==
    /\ pc = "returned"
    /\ \E j, k \in 1..Len(plan.items) :
          /\ j < k
          /\ ~Registered(j)
          /\ k \in InvokedSteps

\* A trail entry that is the skipped-step note of plan step j.
IsSkipNote(e, j) ==
    /\ e.step = j
    /\ e.agent = plan.items[j].agent
    /\ e.instruction = plan.items[j].instruction
    /\ "reason" \in DOMAIN e
    /\ e.reason = "not found"

\* C5: for every plan step whose capability is not registered the returned
\* trail carries a skipped-step note (capability, instruction, "not found").
C5_SkippedStepNoted ==
    pc = "returned" =>
        \A j \in 1..Len(plan.items) :
            ~Registered(j) =>
                \E n \in DOMAIN returned.steps : IsSkipNote(returned.steps[n], j)

C7_RegisteredWorkersExecute ==
    specialists = OrchestratorSpecialists =>
        \A n \in DOMAIN invoked :
            invoked[n].outcome.error # "NotImplementedError"

-----------------------------------------------------------------------------
(* BaseAgent: the Identity.  One instance; its methods are called one after *)
(* the other (IdentitySpec), or generate_iou is entered by two threads        *)
(* (ThreadedSpec).                                                            *)

\* not self.private_key
NoKey(k) == k.type = "none" \/ k.chars = <<>>

\* os.getenv of <NAME>_WALLET and <NAME>_KEY: unset, a key, text that is no
\* key, the empty string.
EnvIdentities ==
    { [wallet |-> None, key |-> None],
      [wallet |-> AddressOf(Text(<<"0", "x", "k1">>)), key |-> Text(<<"0", "x", "k1">>)],
      [wallet |-> AddressOf(Text(<<"0", "x", "k1">>)), key |-> Text(<<"zz">>)],
      [wallet |-> AddressOf(Text(<<"0", "x", "k1">>)), key |-> Text(<<>>)] }

\* Arguments the callers pass.
IouRecipients == {Text(<<"0", "x", "A", "b", "7">>)}
IouAmounts == {MaxAmount}
FromWallets ==
    { Text(<<>>),
      Text(<<"0", "x", "1", "2", "3", "4", "5", "6", "7", "8", "9", "a">>) }
ChannelIds == {None, Str("ch-1", 4)}
PaymentAmounts == {-1, MaxAmount}

\* The call before this one was a register that returned None.
AfterFailedRegister ==
    /\ id_call # None
    /\ id_call.op = "register"
    /\ id_call.outcome.output = None

\* The record kept of a call: its arguments and its outcome; for a call of
\* confirm_payment also the counters on entry, for a call of generate_iou
\* whether it follows a failed registration.
Call(op, party, amount, channel_id, reply, oc) ==
    [op |-> op, party |-> party, amount |-> amount, channel_id |-> channel_id,
     reply |-> reply, outcome |-> oc,
     earned_before |-> IF op = "confirm_payment" THEN total_earned ELSE 0,
     jobs_before |-> IF op = "confirm_payment" THEN jobs_completed ELSE 0,
     after_failed_register |-> op = "generate_iou" /\ AfterFailedRegister]

\* A counter that is not advanced.
NextNonce_Same(n) == n

\* self.nonce += 1
NextNonce(n) == n + 1

\* BaseAgent.generate_iou, called to completion
GenerateIou(worker_wallet, amount) ==
    /\ IF NoKey(self_key)
       THEN /\ id_call' = Call("generate_iou", worker_wallet, amount, None, None,
                               Raise("ValueError"))
            /\ UNCHANGED <<self_nonce, issued>>
       ELSE /\ self_nonce < MaxVouchers
            /\ self_nonce' = NextNonce(self_nonce)
            /\ \E oc \in sign_payment_iou(self_key, worker_wallet, amount, self_nonce') :
                 /\ id_call' = Call("generate_iou", worker_wallet, amount, None,
                                    None, oc)
                 /\ issued' = IF oc.kind = "return"
                              THEN Append(issued, oc.output) ELSE issued
    /\ UNCHANGED <<self_wallet, self_key, total_earned, jobs_completed, threads,
                   orch_vars, worker_vars, wallet_vars>>

\* requests.post(...): the response, or the exception of the transport.  A
\* response is its ok flag and what response.json() gives.
Response(ok, json) == [type |-> "response", ok |-> ok, json |-> json]

RegisteredData ==
    Dict([wallet |-> AddressOf(Text(<<"0", "x", "k2">>)),
          privateKey |-> Text(<<"0", "x", "k2">>)])

RegisterReplies ==
    { Raise("ConnectionError"),
      Return(Response(FALSE, Return(Dict([success |-> Bool(TRUE),
                                          data |-> RegisteredData]), 0)), 0),
      Return(Response(TRUE, Raise("JSONDecodeError")), 0),
      Return(Response(TRUE, Return(JsonList(<<>>), 0)), 0),
      Return(Response(TRUE, Return(Dict(EmptyFields), 0)), 0),
      Return(Response(TRUE, Return(Dict([success |-> Bool(FALSE),
                                         data |-> RegisteredData]), 0)), 0),
      Return(Response(TRUE, Return(Dict([success |-> Bool(TRUE),
                                         data |-> RegisteredData]), 0)), 0),
      Return(Response(TRUE, Return(Dict([success |-> Bool(TRUE)]), 0)), 0),
      Return(Response(TRUE, Return(Dict([success |-> Bool(TRUE),
                                         data |-> None]), 0)), 0) }

\* A failure that wipes the identity.
RegisterFailed_Clears(w, k) == [result |-> None, wallet |-> None, key |-> None]

\* return None, on the not-ok path and in the except branch
RegisterFailed(w, k) == [result |-> None, wallet |-> w, key |-> k]

\* BaseAgent.register: the value returned and the wallet and key it leaves.
register(reply, w, k) ==
    IF reply.kind = "raise" THEN RegisterFailed(w, k)
    ELSE LET response == reply.output IN
         IF ~response.ok THEN RegisterFailed(w, k)
         ELSE IF response.json.kind = "raise" THEN RegisterFailed(w, k)
         ELSE LET data == response.json.output IN
              IF data.type # "dict" THEN RegisterFailed(w, k)
              ELSE IF ~Truthy(Get(data, "success", None)) THEN RegisterFailed(w, k)
              ELSE LET agent_data == Get(data, "data", Dict(EmptyFields)) IN
                   IF agent_data.type # "dict" THEN RegisterFailed(w, k)
                   ELSE [result |-> agent_data,
                         wallet |-> Get(agent_data, "wallet", None),
                         key |-> Get(agent_data, "privateKey", None)]

Register(reply) ==
    /\ LET r == register(reply, self_wallet, self_key) IN
       /\ self_wallet' = r.wallet
       /\ self_key' = r.key
       /\ id_call' = Call("register", None, 0, None, reply, Return(r.result, 0))
    /\ UNCHANGED <<self_nonce, total_earned, jobs_completed, issued, threads,
                   orch_vars, worker_vars, wallet_vars>>

\* A settlement that is booked once only.
Earn_Once(total, amount) == IF total = 0 THEN amount ELSE total

\* self.total_earned += amount
Earn(total, amount) == total + amount

\* from_wallet[:10] inside the f-string of the print call
Prefix10(from_wallet) ==
    IF from_wallet.type # "str" THEN Raise("TypeError")
    ELSE Return(Text(SubSeq(from_wallet.chars, 1,
                            IF Len(from_wallet.chars) < 10
                            THEN Len(from_wallet.chars) ELSE 10)), 0)

\* BaseAgent.confirm_payment
ConfirmPayment(channel_id, amount, from_wallet) ==
    /\ jobs_completed < MaxJobs
    /\ total_earned' = Earn(total_earned, amount)
    /\ jobs_completed' = jobs_completed + 1
    /\ id_call' = Call("confirm_payment", from_wallet, amount, channel_id, None,
                       IF Prefix10(from_wallet).kind = "raise"
                       THEN Prefix10(from_wallet) ELSE Return(Bool(TRUE), 0))
    /\ UNCHANGED <<self_wallet, self_key, self_nonce, issued, threads,
                   orch_vars, worker_vars, wallet_vars>>

\* BaseAgent.get_stats
GetStats ==
    /\ id_call' = Call("get_stats", None, 0, None, None,
                       Return(Dict([wallet |-> self_wallet,
                                    total_earned |-> [type |-> "num", val |-> total_earned],
                                    jobs_completed |-> [type |-> "num", val |-> jobs_completed]]), 0))
    /\ UNCHANGED <<self_wallet, self_key, self_nonce, total_earned, jobs_completed,
                   issued, threads, orch_vars, worker_vars, wallet_vars>>

\* create_payment_request
create_payment_request(from_wallet, to_wallet, amount, channel_id) ==
    Dict([from |-> from_wallet, to |-> to_wallet, amount |-> Text(Digits(amount)),
          channel_id |-> channel_id])

\* BaseAgent.request_payment
RequestPayment(from_wallet, amount, channel_id) ==
    /\ id_call' = Call("request_payment", from_wallet, amount, channel_id, None,
                       Return(create_payment_request(from_wallet, self_wallet,
                                                     amount, channel_id), 0))
    /\ UNCHANGED <<self_wallet, self_key, self_nonce, total_earned, jobs_completed,
                   issued, threads, orch_vars, worker_vars, wallet_vars>>

\* BaseAgent.__init__: wallet and key from the environment, counters at zero.
IdentityNew ==
    /\ \E env \in EnvIdentities : self_wallet = env.wallet /\ self_key = env.key
    /\ self_nonce = 0
    /\ total_earned = 0
    /\ jobs_completed = 0
    /\ issued = <<>>
    /\ id_call = None
    /\ threads = [t \in Threads |-> NoThread]

IdentityInit == OrchIdle /\ WorkerIdle /\ WalletIdle /\ IdentityNew

IdentityNext ==
    \/ \E w \in IouRecipients, a \in IouAmounts : GenerateIou(w, a)
    \/ \E reply \in RegisterReplies : Register(reply)
    \/ \E c \in ChannelIds, a \in PaymentAmounts, w \in FromWallets :
          ConfirmPayment(c, a, w)
    \/ GetStats
    \/ \E w \in FromWallets, a \in IouAmounts, c \in ChannelIds :
          RequestPayment(w, a, c)

IdentitySpec == IdentityInit /\ [][IdentityNext]_vars

\* generate_iou entered by two threads of one process.  No lock guards the
\* method: a thread can be switched out between the bytecodes of
\* self.nonce += 1 (read the attribute, add, write it back) and before the
\* attribute is read again for the call of sign_payment_iou.
Active == {t \in Threads : threads[t].pc # "idle"}

\* Entry: if not self.private_key: raise ValueError
ThreadEnter(t, worker_wallet, amount) ==
    /\ threads[t].pc = "idle"
    /\ IF NoKey(self_key)
       THEN /\ id_call' = Call("generate_iou", worker_wallet, amount, None, None,
                               Raise("ValueError"))
            /\ UNCHANGED threads
       ELSE /\ Len(issued) + Cardinality(Active) < MaxVouchers
            /\ self_nonce < MaxVouchers
            /\ threads' = [threads EXCEPT ![t] =
                             [pc |-> "load", worker_wallet |-> worker_wallet,
                              amount |-> amount, loaded |-> 0]]
            /\ UNCHANGED id_call
    /\ UNCHANGED <<self_wallet, self_key, self_nonce, total_earned, jobs_completed,
                   issued, orch_vars, worker_vars, wallet_vars>>

\* self.nonce += 1: the read of the attribute
ThreadLoad(t) ==
    /\ threads[t].pc = "load"
    /\ threads' = [threads EXCEPT ![t].pc = "store", ![t].loaded = self_nonce]
    /\ UNCHANGED <<self_wallet, self_key, self_nonce, total_earned, jobs_completed,
                   issued, id_call, orch_vars, worker_vars, wallet_vars>>

\* self.nonce += 1: the write of the sum
ThreadStore(t) ==
    /\ threads[t].pc = "store"
    /\ self_nonce' = NextNonce(threads[t].loaded)
    /\ threads' = [threads EXCEPT ![t].pc = "sign"]
    /\ UNCHANGED <<self_wallet, self_key, total_earned, jobs_completed, issued,
                   id_call, orch_vars, worker_vars, wallet_vars>>

\* return sign_payment_iou(self.private_key, worker_wallet, amount, self.nonce)
ThreadSign(t) ==
    /\ threads[t].pc = "sign"
    /\ \E oc \in sign_payment_iou(self_key, threads[t].worker_wallet,
                                  threads[t].amount, self_nonce) :
         /\ id_call' = Call("generate_iou", threads[t].worker_wallet,
                            threads[t].amount, None, None, oc)
         /\ issued' = IF oc.kind = "return" THEN Append(issued, oc.output) ELSE issued
    /\ threads' = [threads EXCEPT ![t] = NoThread]
    /\ UNCHANGED <<self_wallet, self_key, self_nonce, total_earned, jobs_completed,
                   orch_vars, worker_vars, wallet_vars>>

ThreadedNext ==
    \E t \in Threads :
        \/ \E w \in IouRecipients, a \in IouAmounts : ThreadEnter(t, w, a)
        \/ ThreadLoad(t)
        \/ ThreadStore(t)
        \/ ThreadSign(t)

ThreadedSpec == IdentityInit /\ [][ThreadedNext]_vars

-----------------------------------------------------------------------------
(* Claims about the Identity *)

StrictlyIncreasing(vs) ==
    \A i, j \in DOMAIN vs : i < j => vs[i].nonce < vs[j].nonce

\* C11: the vouchers one Identity issues one after the other carry strictly
\* increasing sequence values (so no two share one), and each voucher's nonce
\* field, and the nonce in its signed message, is the counter at signing.
C11_SequenceStrictlyIncreases ==
    [][ /\ StrictlyIncreasing(issued')
        /\ issued' # issued =>
             LET v == issued'[Len(issued')] IN
             /\ Len(issued') = Len(issued) + 1
             /\ v.nonce = self_nonce'
             /\ v.nonce > self_nonce
             /\ v.message = Text(Message(v.recipient, v.amount, self_nonce'))
             /\ v.signature.msg = v.message.chars ]_vars

\* Two vouchers issued under different keys (a registration in between), the
\* second with the larger sequence value.
C11_Witness ==
    /\ Len(issued) >= 2
    /\ issued[1].signature.signer # issued[2].signature.signer
    /\ issued[1].nonce < issued[2].nonce

\* C12: the counter starts at 0 and in every reachable state equals the number
\* of vouchers issued, also after generate_iou calls that failed.
C12_CounterCountsVouchers == self_nonce = Len(issued)

\* C14: every confirm_payment call returns True, adds amount to total_earned
\* and 1 to jobs_completed whatever channel_id and from_wallet are; a second
\* call with the same arguments leaves them increased by 2 * amount and by 2.
C14_ConfirmUnconditional ==
    [][ id_call'.op = "confirm_payment" =>
          /\ id_call'.outcome = Return(Bool(TRUE), 0)
          /\ total_earned' = total_earned + id_call'.amount
          /\ jobs_completed' = jobs_completed + 1
          /\ ( /\ id_call # None
               /\ id_call.op = "confirm_payment"
               /\ id_call.amount = id_call'.amount
               /\ id_call.party = id_call'.party
               /\ id_call.channel_id = id_call'.channel_id )
             => /\ total_earned' = id_call.earned_before + 2 * id_call'.amount
                /\ jobs_completed' = id_call.jobs_before + 2 ]_vars

\* The same payment confirmed twice and counted twice.
C14_Witness ==
    /\ id_call # None
    /\ id_call.op = "confirm_payment"
    /\ id_call.amount = MaxAmount
    /\ id_call.earned_before = MaxAmount
    /\ id_call.jobs_before = 1
    /\ total_earned = 2 * MaxAmount
    /\ jobs_completed = 2

\* C15: over any sequence of calls with any arguments total_earned and
\* jobs_completed never decrease, and only confirm_payment changes them.
C15_EarningsMonotone ==
    [][ /\ total_earned' >= total_earned
        /\ jobs_completed' >= jobs_completed
        /\ (total_earned' # total_earned \/ jobs_completed' # jobs_completed)
             => id_call'.op = "confirm_payment" ]_vars

\* A transport error, a response that is not ok, or a response without success.
RegistrationFailed(reply) ==
    \/ reply.kind = "raise"
    \/ ~reply.output.ok
    \/ reply.output.json.kind = "raise"
    \/ reply.output.json.output.type # "dict"
    \/ ~Truthy(Get(reply.output.json.output, "success", None))

\* C16: a failed registration never raises: register returns None and leaves
\* wallet and private key as they were; generate_iou on an Identity without a
\* private key raises and produces no voucher.
C16_FailedRegistration ==
    [][ /\ (id_call'.op = "register" /\ RegistrationFailed(id_call'.reply))
             => /\ id_call'.outcome = Return(None, 0)
                /\ self_wallet' = self_wallet
                /\ self_key' = self_key
        /\ (id_call'.op = "generate_iou" /\ NoKey(self_key))
             => /\ id_call'.outcome = Raise("ValueError")
                /\ issued' = issued
                /\ self_nonce' = self_nonce ]_vars

\* An Identity with no key whose registration failed and whose generate_iou
\* then raised.
C16_Witness ==
    /\ id_call # None
    /\ id_call.op = "generate_iou"
    /\ id_call.after_failed_register
    /\ id_call.outcome = Raise("ValueError")
    /\ self_key = None
    /\ issued = <<>>

\* C13: when two generate_iou calls on one Identity interleave, no two of the
\* vouchers issued carry the same sequence value.
C13_NoSharedSequence ==
    \A i, j \in DOMAIN issued : i # j => issued[i].nonce # issued[j].nonce

-----------------------------------------------------------------------------
(* Claims about the decomposition and the trail *)

IsValue(tok) == tok.t = "value"

\* The JSON text a response encloses.
Payload(tokens) == SelectSeq(tokens, IsValue)

\* The response is a JSON text alone or in the decorative wrapping.
WrappedPayload(tokens) ==
    \E j \in GenuinePlans \cup MalformedPlans :
        tokens \in {<<Val(j)>>, <<Fence, Word("json"), Ws, Val(j), Ws, Fence>>}

\* C19: stripping the decorative wrapping is exact: the text handed to the
\* parser, and so the plan, is the enclosed payload unchanged, also when the
\* payload has a code-fence marker inside an instruction string.
C19_StrippingExact ==
    ( /\ plan_response # None
      /\ plan_response.kind = "return"
      /\ WrappedPayload(plan_response.output.tokens) )
    => /\ PlanData(plan_response.output.tokens) = Payload(plan_response.output.tokens)
       /\ plan = Payload(plan_response.output.tokens)[1].v

\* C20: the trail run returns has exactly one entry per executed step, in
\* execution order, each with that step's capability and the cost the step
\* returned; it is never longer than the plan; final_output is the output of
\* the step of the last entry, or the task when the trail is empty.
C20_TrailPerExecutedStep ==
    pc = "returned" =>
        LET trail == returned.steps IN
        /\ Len(trail) = Len(invoked)
        /\ Len(trail) <= Len(plan.items)
        /\ \A n \in DOMAIN trail :
              /\ invoked[n].outcome.kind = "return"
              /\ trail[n].step = invoked[n].step
              /\ trail[n].agent = plan.items[trail[n].step].agent
              /\ trail[n].agent = invoked[n].agent
              /\ trail[n].cost = invoked[n].outcome.cost
              /\ n > 1 => trail[n - 1].step < trail[n].step
        /\ returned.final_output =
              IF trail = <<>> THEN user_query
              ELSE invoked[Len(trail)].outcome.output

\* A three-step plan of which two steps executed, at different costs.
C20_Witness ==
    /\ pc = "returned"
    /\ Len(plan.items) = 3
    /\ Len(returned.steps) = 2
    /\ returned.steps[1].cost # returned.steps[2].cost
    /\ returned.final_output # user_query

\* The first units of a text followed by the truncation marker.
Truncated(out) ==
    [type |-> "str", prefix_of |-> out.body, prefix_len |-> PreviewLen,
     suffix |-> "...", len |-> PreviewLen + 3]

Returned(call) == call.outcome.kind = "return"

\* C21: each trail entry's output preview is bounded: it is the step's output
\* itself when that output is at most 200 units long, and otherwise exactly
\* its first 200 units followed by the marker "..."; the untruncated output is
\* what the next step receives and what run returns as final_output.
C21_PreviewBounded ==
    LET done == SelectSeq(invoked, Returned) IN
    /\ Len(results) = Len(done)
    /\ \A n \in DOMAIN results :
          LET out == done[n].outcome.output
              preview == results[n].output_preview IN
          /\ out.type = "str"
          /\ out.len <= PreviewLen => preview = out
          /\ out.len > PreviewLen => preview = Truncated(out)
          /\ preview.len <= PreviewLen + 3
    /\ \A n \in DOMAIN invoked :
          n > 1 => invoked[n].input = invoked[n - 1].outcome.output
    /\ (pc \in {"chain", "returned"} /\ done # <<>>) =>
          current_data = done[Len(done)].outcome.output
    /\ (pc = "returned" /\ done # <<>>) =>
          returned.final_output = done[Len(done)].outcome.output

\* A run of three steps whose outputs are longer than a preview, exactly a
\* preview long, and longer again: the first and last previews are cut, the
\* second is the output, and the long outputs are threaded and returned whole.
C21_Witness ==
    /\ pc = "returned"
    /\ Len(returned.steps) = 3
    /\ invoked[1].outcome.output.len = PreviewLen + 1
    /\ returned.steps[1].output_preview.len = PreviewLen + 3
    /\ invoked[2].input.len = PreviewLen + 1
    /\ invoked[2].outcome.output.len = PreviewLen
    /\ returned.steps[2].output_preview = invoked[2].outcome.output
    /\ returned.steps[3].output_preview = Truncated(invoked[3].outcome.output)
    /\ returned.final_output.len = PreviewLen + 1
====
